---------------------------- MODULE Spec2Model ----------------------------
(***************************************************************************)
(* The search_movies tool of movie-mcp-server: the mcp-use handler of      *)
(* src/index.ts (searchMoviesHandler) and the edge-function tool callback  *)
(* of src/unnamed/part_000, each as a state machine stepping at its await  *)
(* points (fetch, response.json()).                                        *)
(*                                                                         *)
(* Text is a sequence of tokens: a token is one character ("4", "-", " ")  *)
(* or a chunk of a string literal of the source, so that template strings  *)
(* are concatenations, split("-") and trim() work on characters, and       *)
(* "contains" is a real sub-sequence test.                                 *)
(* JSON values are tagged records [t |-> tag, v |-> value]; a number is    *)
(* carried in thousandths (7666 is 7.666, 1000 is 1).                      *)
(***************************************************************************)
EXTENDS Integers, Sequences, FiniteSets, TLC

(***************************************************************************)
(* Bounds of the model.                                                    *)
(***************************************************************************)
\* Longest upstream results array (over the core entries).
MaxResults == 4
\* Longest upstream results array over every kind of entry.
MaxMixed == 2
\* Calls the framework dispatches concurrently.
NumCalls == 2

(***************************************************************************)
(* Text.                                                                   *)
(***************************************************************************)
Digits == <<"0", "1", "2", "3", "4", "5", "6", "7", "8", "9">>

IsDigit(ch) == \E i \in 1..Len(Digits) : Digits[i] = ch

Whitespace == {" ", "\t", "\n"}

\* Template-literal / String() rendering of a non-negative integer.
RECURSIVE NumberToString(_)
NumberToString(n) ==
    IF n < 10 THEN <<Digits[n + 1]>>
    ELSE NumberToString(n \div 10) \o <<Digits[(n % 10) + 1]>>

\* String.prototype.trim
RECURSIVE Trim(_)
Trim(s) ==
    IF s = <<>> THEN s
    ELSE IF Head(s) \in Whitespace THEN Trim(Tail(s))
    ELSE IF s[Len(s)] \in Whitespace THEN Trim(SubSeq(s, 1, Len(s) - 1))
    ELSE s

\* String.prototype.split with a one-character separator
RECURSIVE Split(_, _)
Split(s, sep) ==
    IF \A i \in 1..Len(s) : s[i] # sep THEN <<s>>
    ELSE LET i == CHOOSE k \in 1..Len(s) :
                     s[k] = sep /\ \A j \in 1..(k - 1) : s[j] # sep
         IN  <<SubSeq(s, 1, i - 1)>> \o Split(SubSeq(s, i + 1, Len(s)), sep)

\* Whether text s holds text sub.
Contains(s, sub) ==
    \E i \in 0..(Len(s) - Len(sub)) : SubSeq(s, i + 1, i + Len(sub)) = sub

(***************************************************************************)
(* JSON values.                                                            *)
(***************************************************************************)
Undefined == [t |-> "undefined"]
JNull == [t |-> "null"]
JNum(n) == [t |-> "num", v |-> n]
JStr(s) == [t |-> "str", v |-> s]
JArr(a) == [t |-> "arr", v |-> a]
JObj(f) == [t |-> "obj", v |-> f]

\* Property access obj.key (undefined for a missing key or a non-object).
Get(obj, key) ==
    IF obj.t = "obj" /\ key \in DOMAIN obj.v THEN obj.v[key] ELSE Undefined

\* JavaScript truthiness of a JSON value.
Truthy(x) ==
    CASE x.t \in {"undefined", "null"} -> FALSE
      [] x.t = "str" -> x.v # <<>>
      [] x.t = "num" -> x.v # 0
      [] OTHER -> TRUE

(***************************************************************************)
(* src/index.ts 107-141, src/unnamed/part_000 34-35, 110-131.              *)
(***************************************************************************)
TMDB_POSTER_BASE_URL == <<"https://image.tmdb.org/t/p/w500">>

\* z.string().nullable().optional() / z.number().nullable().optional()
ZOptNullable(x, tag) == x.t \in {"undefined", "null", tag}

\* One element of tmdbSearchResponseSchema.results.
ResultConforms(e) ==
    /\ e.t = "obj"
    /\ Get(e, "id").t = "num"
    /\ Get(e, "title").t = "str"
    /\ ZOptNullable(Get(e, "release_date"), "str")
    /\ ZOptNullable(Get(e, "vote_average"), "num")
    /\ ZOptNullable(Get(e, "poster_path"), "str")

\* Variant: only the entries that will be kept are validated.
tmdbSearchResponseSchema_firstThree(body) ==
    /\ body.t = "obj"
    /\ Get(body, "results").t = "arr"
    /\ \A i \in 1..Len(Get(body, "results").v) :
          i <= 3 => ResultConforms(Get(body, "results").v[i])

\* Whether tmdbSearchResponseSchema.parse(body) succeeds.
tmdbSearchResponseSchema(body) ==
    /\ body.t = "obj"
    /\ Get(body, "results").t = "arr"
    /\ \A i \in 1..Len(Get(body, "results").v) :
          ResultConforms(Get(body, "results").v[i])

\* Variant: the `|| "N/A"` fallback of line 125 is missing.
formatReleaseYear_noFallback(releaseDate) ==
    IF ~Truthy(releaseDate) THEN <<"N/A">>
    ELSE Split(releaseDate.v, "-")[1]

formatReleaseYear(releaseDate) ==
    IF ~Truthy(releaseDate) THEN <<"N/A">>
    ELSE LET year == Split(releaseDate.v, "-")[1]
         IN  IF year # <<>> THEN year ELSE <<"N/A">>

\* Variant: the base URL is not prepended.
buildPosterUrl_noBase(posterPath) ==
    IF ~Truthy(posterPath) THEN JNull
    ELSE JStr(posterPath.v)

buildPosterUrl(posterPath) ==
    IF ~Truthy(posterPath) THEN JNull
    ELSE JStr(TMDB_POSTER_BASE_URL \o posterPath.v)

\* Number((x ?? 0).toFixed(1)), in tenths, of a value in thousandths. The
\* upstream values of the model are no ties (x % 100 # 50), where toFixed
\* rounds by the binary value of x.
Rating(voteAverage) ==
    LET x == IF voteAverage.t = "num" THEN voteAverage.v ELSE 0
    IN  (x + 50) \div 100

mapTmdbMovieToCard(movie) ==
    [id |-> Get(movie, "id").v,
     title |-> Get(movie, "title").v,
     releaseYear |-> formatReleaseYear(Get(movie, "release_date")),
     rating |-> Rating(Get(movie, "vote_average")),
     posterUrl |-> buildPosterUrl(Get(movie, "poster_path"))]

\* Array.prototype.slice(0, n)
Slice0(a, n) == SubSeq(a, 1, IF Len(a) < n THEN Len(a) ELSE n)

\* Variant: slice(0, 3) is missing.
TopMovies_noSlice(results) ==
    [i \in 1..Len(results) |-> mapTmdbMovieToCard(results[i])]

\* payload.results.slice(0, 3).map(mapTmdbMovieToCard)
TopMovies(results) ==
    LET top == Slice0(results, 3)
    IN  [i \in 1..Len(top) |-> mapTmdbMovieToCard(top[i])]

(***************************************************************************)
(* Inputs: queries, API-key configurations, upstream bodies and the ways   *)
(* the outbound call can end.                                              *)
(***************************************************************************)
Queries == {<<>>, <<"u", "p">>, <<"i", "t">>}

\* TMDB_API_KEY: unset, set to the empty string, set to a key.
ApiKeys == {Undefined, JStr(<<>>), JStr(<<"k", "1">>)}

Date19990331 == <<"1", "9", "9", "9", "-", "0", "3", "-", "3", "1">>

MovieFull ==
    JObj([id |-> JNum(1000), title |-> JStr(<<"D", "u", "n", "e">>),
          release_date |-> JStr(Date19990331), vote_average |-> JNum(7666),
          poster_path |-> JStr(<<"/", "a", ".", "j", "p", "g">>)])
MovieBare == JObj([id |-> JNum(2000), title |-> JStr(<<"U", "p">>)])
MovieNulls ==
    JObj([id |-> JNum(3000), title |-> JStr(<<"H", "e", "a", "t">>),
          release_date |-> JNull, vote_average |-> JNull, poster_path |-> JNull])
MovieEmpties ==
    JObj([id |-> JNum(4000), title |-> JStr(<<"R", "a", "n">>),
          release_date |-> JStr(<<>>), vote_average |-> JNum(0),
          poster_path |-> JStr(<<>>)])
MovieYearOnly ==
    JObj([id |-> JNum(5000), title |-> JStr(<<"H", "e", "r">>),
          release_date |-> JStr(<<"2", "0", "2", "0">>),
          vote_average |-> JNum(8000),
          poster_path |-> JStr(<<"/", "b", ".", "j", "p", "g">>)])
MovieDashFirst ==
    JObj([id |-> JNum(6000), title |-> JStr(<<"B", "i", "g">>),
          release_date |-> JStr(<<"-", "0", "5">>)])
MovieOddDate ==
    JObj([id |-> JNum(7000), title |-> JStr(<<"R", "a", "y">>),
          release_date |-> JStr(<<"T", "B", "A", "-", "1">>)])
NoId == JObj([title |-> JStr(<<"X">>)])
NoTitle == JObj([id |-> JNum(8000)])
IdAsString == JObj([id |-> JStr(<<"9">>), title |-> JStr(<<"Y">>)])
DateAsNumber ==
    JObj([id |-> JNum(9000), title |-> JStr(<<"Z">>),
          release_date |-> JNum(2020000)])

CoreEntries == {MovieFull, MovieBare, MovieYearOnly, NoTitle}
MixedEntries ==
    {MovieFull, MovieBare, MovieNulls, MovieEmpties, MovieYearOnly,
     MovieDashFirst, MovieOddDate, NoId, NoTitle, IdAsString, DateAsNumber,
     JNull}

ResultArrays ==
    UNION {[1..n -> MixedEntries] : n \in 0..MaxMixed}
    \cup UNION {[1..n -> CoreEntries] : n \in (MaxMixed + 1)..MaxResults}

\* A body that is not JSON, and a body whose stream fails while it is read.
BodyInvalidJson == [t |-> "invalid_json"]
BodyAborted == [t |-> "aborted"]

OtherBodies ==
    {BodyInvalidJson, BodyAborted, JNull, JObj(<<>>),
     JObj([results |-> JNull]),
     JObj([status_message |-> JStr(<<"Invalid API key.">>)]),
     JObj([status_message |-> JStr(<<"Down.", " ">>)]),
     JObj([status_message |-> JStr(<<" ">>)]),
     JObj([status_message |-> JStr(<<>>)]),
     JObj([status_message |-> JNum(7000)])}

Bodies == {JObj([results |-> JArr(a)]) : a \in ResultArrays} \cup OtherBodies

Statuses == {200, 201, 401, 500}

\* A thrown value: an Error with its message, or a value that is no Error.
ErrorOf(message) == [t |-> "Error", message |-> message]
NonError == [t |-> "thrown_value"]
FetchThrown == {ErrorOf(<<"fetch failed">>), ErrorOf(<<>>), NonError}

Rejected(e) == [t |-> "rejected", thrown |-> e]
Response(status, body) == [t |-> "response", status |-> status, body |-> body]

FetchOutcomes ==
    {Rejected(e) : e \in FetchThrown}
    \cup {Response(s, b) : s \in Statuses, b \in Bodies}

None == [t |-> "none"]

(***************************************************************************)
(* State.                                                                  *)
(***************************************************************************)
VARIABLES
    apiKey,     \* the TMDB_API_KEY of the environment
    pc,         \* per call: where the handler stands
    impl,       \* per call: the implementation serving it
    query,      \* per call: the query argument
    outcome,    \* per call: how its fetch ended, None before
    requests,   \* per call: outbound HTTP requests issued
    returned,   \* per call: the results handed back to the framework
    kind        \* per call: the return statement taken

vars == <<apiKey, pc, impl, query, outcome, requests, returned, kind>>

Calls == {1}

Init ==
    /\ apiKey \in ApiKeys
    /\ pc = [c \in Calls |-> "idle"]
    /\ impl = [c \in Calls |-> "none"]
    /\ query = [c \in Calls |-> <<>>]
    /\ outcome = [c \in Calls |-> None]
    /\ requests = [c \in Calls |-> 0]
    /\ returned = [c \in Calls |-> <<>>]
    /\ kind = [c \in Calls |-> "none"]

(***************************************************************************)
(* Results.                                                                *)
(***************************************************************************)
\* widget({ props, output: text(modelMessage) })
buildSearchMoviesWidgetResponse(props, modelMessage) ==
    [text |-> modelMessage, payload |-> props]

\* { content: [{ type: "text", text }], structuredContent }
EdgeToolResult(text, structuredContent) ==
    [text |-> text, payload |-> structuredContent]

\* Variant: the error field is left out.
ErrorProps_noError(q, error) == [query |-> q, movies |-> <<>>]

\* { query, movies: [], error }
ErrorProps(q, error) == [query |-> q, movies |-> <<>>, error |-> error]

MissingKeyError ==
    <<"TMDB API key is missing. Set ", "TMDB_API_KEY", " and try again.">>

\* `TMDB request failed with status ${response.status}.${details}`
HttpFailureError(status, details) ==
    <<"TMDB request failed with status ">> \o NumberToString(status)
        \o <<".">> \o details

NoResultsError == <<"No movies found for this query.">>

\* error instanceof Error ? error.message : "Unknown network error"
CatchMessage(error) ==
    IF error.t = "Error" THEN error.message ELSE <<"Unknown network error">>

NetworkError(error) ==
    <<"Unable to fetch movie results right now: ">> \o CatchMessage(error)

\* Variant: the status text does not quote the query.
NoResultsText_noQuery(q) == <<"No movies found.">>

NoResultsText(q) == <<"No movies found for \"">> \o q \o <<"\".">>

\* Variant: the status text does not quote the query.
FoundText_noQuery(n, q) ==
    <<"Found ">> \o NumberToString(n) \o <<" movie result(s).">>

FoundText(n, q) ==
    <<"Found ">> \o NumberToString(n) \o <<" movie result(s) for \"">>
        \o q \o <<"\".">>

HttpFailureText == <<"Movie search failed due to an external API error.">>
NetworkFailureText ==
    <<"Movie search failed due to a network or parsing error.">>

\* response.ok
ResponseOk(r) == r.status >= 200 /\ r.status <= 299

\* await response.json(): the value, or the error it rejects with.
JsonRead(body) ==
    CASE body = BodyInvalidJson ->
             [ok |-> FALSE,
              thrown |-> ErrorOf(<<"Unexpected token < in JSON at position 0">>)]
      [] body = BodyAborted ->
             [ok |-> FALSE, thrown |-> ErrorOf(<<"terminated">>)]
      [] OTHER -> [ok |-> TRUE, value |-> body]

\* The ZodError tmdbSearchResponseSchema.parse throws.
ZodError == ErrorOf(<<"[ zod issues ]">>)

(***************************************************************************)
(* Control flow shared by the two implementations.                         *)
(***************************************************************************)
\* A return statement: the one result of the invocation.
Return(c, k, result) ==
    /\ pc' = [pc EXCEPT ![c] = "done"]
    /\ returned' = [returned EXCEPT ![c] = Append(@, result)]
    /\ kind' = [kind EXCEPT ![c] = k]

\* An exception leaving the handler: the framework sees a rejected promise.
Raise(c) ==
    /\ pc' = [pc EXCEPT ![c] = "raised"]
    /\ UNCHANGED <<returned, kind>>

\* The call is suspended at an await.
Await(c, at) ==
    /\ pc' = [pc EXCEPT ![c] = at]
    /\ UNCHANGED <<returned, kind>>

(***************************************************************************)
(* src/index.ts 152-229: searchMoviesHandler.                              *)
(***************************************************************************)
MissingKeyText ==
    <<"Movie search failed because the TMDB API key is not configured.">>

\* Variant: fetch is awaited before the try block.
InTryBlock_fetchOutside(site) == site # "fetch"

\* The statements the try of lines 166-216 encloses.
InTryBlock(site) == site \in {"fetch", "json", "parse"}

\* Variant: the query is kept in a module-level variable that every
\* invocation overwrites, and the catch reads it back.
searchMoviesHandler_Catch_sharedQuery(c, error) ==
    LET last == CHOOSE d \in DOMAIN pc :
                    /\ pc[d] # "idle"
                    /\ \A e \in DOMAIN pc : pc[e] # "idle" => e <= d
    IN  Return(c, "network_parse",
               buildSearchMoviesWidgetResponse(
                   ErrorProps(query[last], NetworkError(error)),
                   NetworkFailureText))

\* catch (error) { ... } of lines 216-228
searchMoviesHandler_Catch(c, error) ==
    Return(c, "network_parse",
           buildSearchMoviesWidgetResponse(
               ErrorProps(query[c], NetworkError(error)), NetworkFailureText))

searchMoviesHandler_Throw(c, error, site) ==
    IF InTryBlock(site) THEN searchMoviesHandler_Catch(c, error) ELSE Raise(c)

\* Variant: the request is issued before the key is tested.
searchMoviesHandler_Start_fetchFirst(c, q) ==
    /\ pc[c] = "idle"
    /\ Len(q) >= 1
    /\ impl' = [impl EXCEPT ![c] = "mcp_use"]
    /\ query' = [query EXCEPT ![c] = q]
    /\ requests' = [requests EXCEPT ![c] = @ + 1]
    /\ IF ~Truthy(apiKey)
       THEN Return(c, "missing_credential",
                   buildSearchMoviesWidgetResponse(
                       ErrorProps(q, MissingKeyError), MissingKeyText))
       ELSE Await(c, "fetch")
    /\ UNCHANGED <<apiKey, outcome>>

\* Lines 152-173: the key test, then the request is issued and awaited.
\* The framework validates the input against searchMoviesInputSchema (min 1).
searchMoviesHandler_Start(c, q) ==
    /\ pc[c] = "idle"
    /\ Len(q) >= 1
    /\ impl' = [impl EXCEPT ![c] = "mcp_use"]
    /\ query' = [query EXCEPT ![c] = q]
    /\ IF ~Truthy(apiKey)
       THEN /\ Return(c, "missing_credential",
                      buildSearchMoviesWidgetResponse(
                          ErrorProps(q, MissingKeyError), MissingKeyText))
            /\ UNCHANGED requests
       ELSE /\ Await(c, "fetch")
            /\ requests' = [requests EXCEPT ![c] = @ + 1]
    /\ UNCHANGED <<apiKey, outcome>>

\* Lines 173-174: fetch settles; a rejection is thrown at the await.
searchMoviesHandler_FetchSettles(c, outcomes) ==
    /\ pc[c] = "fetch"
    /\ impl[c] = "mcp_use"
    /\ \E o \in outcomes :
          /\ outcome' = [outcome EXCEPT ![c] = o]
          /\ IF o.t = "rejected"
             THEN searchMoviesHandler_Throw(c, o.thrown, "fetch")
             ELSE IF ~ResponseOk(o) THEN Await(c, "error_body")
             ELSE Await(c, "body")
    /\ UNCHANGED <<apiKey, impl, query, requests>>

\* Lines 175-183: the inner try reads the error body; its catch swallows.
ErrorDetails(body) ==
    LET r == JsonRead(body)
    IN  IF ~r.ok THEN <<>>
        ELSE LET m == Get(r.value, "status_message")
             IN  IF Truthy(m) /\ m.t = "str" THEN <<" ">> \o m.v ELSE <<>>

\* Variant: the inner try/catch of lines 176-183 is missing.
searchMoviesHandler_ErrorBody_noInnerCatch(c) ==
    /\ pc[c] = "error_body"
    /\ impl[c] = "mcp_use"
    /\ IF ~JsonRead(outcome[c].body).ok
       THEN searchMoviesHandler_Throw(c, JsonRead(outcome[c].body).thrown, "json")
       ELSE Return(c, "http_failure",
              buildSearchMoviesWidgetResponse(
                  ErrorProps(query[c],
                             Trim(HttpFailureError(outcome[c].status,
                                                   ErrorDetails(outcome[c].body)))),
                  HttpFailureText))
    /\ UNCHANGED <<apiKey, impl, query, outcome, requests>>

\* Lines 174-193: the non-2xx branch, after await response.json() settles.
searchMoviesHandler_ErrorBody(c) ==
    /\ pc[c] = "error_body"
    /\ impl[c] = "mcp_use"
    /\ Return(c, "http_failure",
              buildSearchMoviesWidgetResponse(
                  ErrorProps(query[c],
                             Trim(HttpFailureError(outcome[c].status,
                                                   ErrorDetails(outcome[c].body)))),
                  HttpFailureText))
    /\ UNCHANGED <<apiKey, impl, query, outcome, requests>>

\* Lines 195-215: after await response.json() settles on a 2xx response.
searchMoviesHandler_Body(c) ==
    /\ pc[c] = "body"
    /\ impl[c] = "mcp_use"
    /\ LET r == JsonRead(outcome[c].body)
       IN  IF ~r.ok THEN searchMoviesHandler_Throw(c, r.thrown, "json")
           ELSE IF ~tmdbSearchResponseSchema(r.value)
           THEN searchMoviesHandler_Throw(c, ZodError, "parse")
           ELSE LET movies == TopMovies(Get(r.value, "results").v)
                IN  IF Len(movies) = 0
                    THEN Return(c, "no_results",
                                buildSearchMoviesWidgetResponse(
                                    ErrorProps(query[c], NoResultsError),
                                    NoResultsText(query[c])))
                    ELSE Return(c, "success",
                                buildSearchMoviesWidgetResponse(
                                    [query |-> query[c], movies |-> movies],
                                    FoundText(Len(movies), query[c])))
    /\ UNCHANGED <<apiKey, impl, query, outcome, requests>>

(***************************************************************************)
(* src/unnamed/part_000 185-276: the search_movies tool callback.          *)
(***************************************************************************)
EdgeMissingKeyText ==
    <<"Movie search failed because ", "TMDB_API_KEY", " is not configured.">>

\* The statements the try of lines 203-259 encloses.
EdgeInTryBlock(site) == site \in {"fetch", "json", "parse"}

\* catch (error) { ... } of lines 259-275
searchMoviesTool_Catch(c, error) ==
    Return(c, "network_parse",
           EdgeToolResult(NetworkFailureText,
                          ErrorProps(query[c], NetworkError(error))))

searchMoviesTool_Throw(c, error, site) ==
    IF EdgeInTryBlock(site) THEN searchMoviesTool_Catch(c, error) ELSE Raise(c)

\* Lines 185-210: the key test, then the request is issued and awaited.
\* The input schema of lines 106-108 accepts any string.
searchMoviesTool_Start(c, q) ==
    /\ pc[c] = "idle"
    /\ impl' = [impl EXCEPT ![c] = "edge"]
    /\ query' = [query EXCEPT ![c] = q]
    /\ IF ~Truthy(apiKey)
       THEN /\ Return(c, "missing_credential",
                      EdgeToolResult(EdgeMissingKeyText,
                                     ErrorProps(q, MissingKeyError)))
            /\ UNCHANGED requests
       ELSE /\ Await(c, "fetch")
            /\ requests' = [requests EXCEPT ![c] = @ + 1]
    /\ UNCHANGED <<apiKey, outcome>>

\* Lines 210-225: fetch settles; a non-2xx response returns at once.
searchMoviesTool_FetchSettles(c, outcomes) ==
    /\ pc[c] = "fetch"
    /\ impl[c] = "edge"
    /\ \E o \in outcomes :
          /\ outcome' = [outcome EXCEPT ![c] = o]
          /\ IF o.t = "rejected"
             THEN searchMoviesTool_Throw(c, o.thrown, "fetch")
             ELSE IF ~ResponseOk(o)
             THEN Return(c, "http_failure",
                         EdgeToolResult(HttpFailureText,
                             ErrorProps(query[c],
                                        HttpFailureError(o.status, <<>>))))
             ELSE Await(c, "body")
    /\ UNCHANGED <<apiKey, impl, query, requests>>

\* Lines 227-258: after await response.json() settles on a 2xx response.
searchMoviesTool_Body(c) ==
    /\ pc[c] = "body"
    /\ impl[c] = "edge"
    /\ LET r == JsonRead(outcome[c].body)
       IN  IF ~r.ok THEN searchMoviesTool_Throw(c, r.thrown, "json")
           ELSE IF ~tmdbSearchResponseSchema(r.value)
           THEN searchMoviesTool_Throw(c, ZodError, "parse")
           ELSE LET movies == TopMovies(Get(r.value, "results").v)
                IN  IF Len(movies) = 0
                    THEN Return(c, "no_results",
                                EdgeToolResult(NoResultsText(query[c]),
                                    ErrorProps(query[c], NoResultsError)))
                    ELSE Return(c, "success",
                                EdgeToolResult(FoundText(Len(movies), query[c]),
                                    [query |-> query[c], movies |-> movies]))
    /\ UNCHANGED <<apiKey, impl, query, outcome, requests>>

(***************************************************************************)
(* The specification: one call, served by either implementation.           *)
(***************************************************************************)
HandlerStart ==
    \E c \in DOMAIN pc : \E q \in Queries : searchMoviesHandler_Start(c, q)
HandlerFetchSettles ==
    \E c \in DOMAIN pc : searchMoviesHandler_FetchSettles(c, FetchOutcomes)
HandlerErrorBody == \E c \in DOMAIN pc : searchMoviesHandler_ErrorBody(c)
HandlerBody == \E c \in DOMAIN pc : searchMoviesHandler_Body(c)
ToolStart ==
    \E c \in DOMAIN pc : \E q \in Queries : searchMoviesTool_Start(c, q)
ToolFetchSettles ==
    \E c \in DOMAIN pc : searchMoviesTool_FetchSettles(c, FetchOutcomes)
ToolBody == \E c \in DOMAIN pc : searchMoviesTool_Body(c)

Next ==
    \/ HandlerStart
    \/ HandlerFetchSettles
    \/ HandlerErrorBody
    \/ HandlerBody
    \/ ToolStart
    \/ ToolFetchSettles
    \/ ToolBody

Spec == Init /\ [][Next]_vars

(***************************************************************************)
(* Vocabulary of the properties.                                           *)
(***************************************************************************)
Done(c) == pc[c] = "done"
Result(c) == returned[c][1]
Payload(c) == Result(c).payload
HasError(c) == "error" \in DOMAIN Payload(c) /\ Payload(c).error # <<>>
GotResponse(c) == outcome[c].t = "response"
Got2xx(c) == GotResponse(c) /\ outcome[c].status \in 200..299
GotNon2xx(c) == GotResponse(c) /\ outcome[c].status \notin 200..299
KeyConfigured == apiKey.t = "str" /\ apiKey.v # <<>>
\* The expected success body: { results: [{ id: number, title: string,
\* release_date?: string|null, vote_average?: number|null,
\* poster_path?: string|null }, ...] }.
OptionalField(e, key, tag) ==
    key \in DOMAIN e.v => e.v[key].t \in {tag, "null"}
ExpectedEntry(e) ==
    /\ e.t = "obj"
    /\ "id" \in DOMAIN e.v /\ e.v.id.t = "num"
    /\ "title" \in DOMAIN e.v /\ e.v.title.t = "str"
    /\ OptionalField(e, "release_date", "str")
    /\ OptionalField(e, "vote_average", "num")
    /\ OptionalField(e, "poster_path", "str")
WellFormedBody(c) ==
    /\ Got2xx(c)
    /\ outcome[c].body.t = "obj"
    /\ "results" \in DOMAIN outcome[c].body.v
    /\ outcome[c].body.v.results.t = "arr"
    /\ \A i \in 1..Len(outcome[c].body.v.results.v) :
          ExpectedEntry(outcome[c].body.v.results.v[i])
Upstream(c) == outcome[c].body.v.results.v
Min(a, b) == IF a < b THEN a ELSE b

(***************************************************************************)
(* C1: the handler never raises to the framework: however the outbound     *)
(* call ends, a pending call has a step to take and has returned nothing,  *)
(* and a finished call has returned exactly one result, a status text with *)
(* a payload {query, movies, error?} of at most 3 cards.                   *)
(***************************************************************************)
C1_NeverRaises ==
    \A c \in DOMAIN pc :
        /\ pc[c] \in {"idle", "fetch", "error_body", "body", "done"}
        /\ pc[c] # "done" => returned[c] = <<>>
        /\ pc[c] = "fetch" => ENABLED (HandlerFetchSettles \/ ToolFetchSettles)
        /\ pc[c] = "error_body" => ENABLED searchMoviesHandler_ErrorBody(c)
        /\ pc[c] = "body" => impl[c] \in {"mcp_use", "edge"} /\ Got2xx(c)
        /\ Done(c) =>
              /\ Len(returned[c]) = 1
              /\ Result(c).text # <<>>
              /\ DOMAIN Payload(c) \in
                     {{"query", "movies"}, {"query", "movies", "error"}}
              /\ Payload(c).query = query[c]
              /\ Len(Payload(c).movies) <= 3

C1_Witness ==
    \E c \in DOMAIN pc :
        /\ Done(c)
        /\ impl[c] = "mcp_use"
        /\ outcome[c] = Rejected(NonError)
        /\ Len(returned[c]) = 1

(***************************************************************************)
(* C2: a call makes no outbound request when no API key is configured and  *)
(* exactly one otherwise, whatever the response; on the missing-key path   *)
(* the result has no movies and an error text naming TMDB_API_KEY.         *)
(***************************************************************************)
C2_RequestCount ==
    \A c \in DOMAIN pc :
        /\ pc[c] = "idle" => requests[c] = 0
        /\ pc[c] # "idle" => requests[c] = IF KeyConfigured THEN 1 ELSE 0
        /\ (pc[c] # "idle" /\ ~KeyConfigured) =>
              /\ Done(c)
              /\ outcome[c] = None
              /\ Payload(c).movies = <<>>
              /\ HasError(c)
              /\ Contains(Payload(c).error, <<"TMDB_API_KEY">>)

C2_Witness ==
    \E c \in DOMAIN pc :
        /\ Done(c)
        /\ requests[c] = 1
        /\ GotNon2xx(c)
        /\ outcome[c].body = BodyInvalidJson

(***************************************************************************)
(* C3: in every result the error field is present and non-empty exactly    *)
(* when the movies list is empty: the four failure kinds give no movies    *)
(* and an error, success gives movies and no error field.                  *)
(***************************************************************************)
C3_ErrorIffNoMovies ==
    \A c \in DOMAIN pc :
        Done(c) =>
            /\ HasError(c) <=> Payload(c).movies = <<>>
            /\ kind[c] \in {"missing_credential", "http_failure",
                            "no_results", "network_parse", "success"}
            /\ kind[c] # "success" => Payload(c).movies = <<>> /\ HasError(c)
            /\ kind[c] = "success" =>
                  Payload(c).movies # <<>> /\ "error" \notin DOMAIN Payload(c)

C3_Witness ==
    \E c \in DOMAIN pc :
        /\ Done(c)
        /\ kind[c] = "no_results"
        /\ Payload(c).movies = <<>>
        /\ HasError(c)

(***************************************************************************)
(* C4: for a well-formed 2xx response with n >= 1 results, the movies list *)
(* has min(3, n) cards and its i-th card is the mapping of the i-th        *)
(* upstream result (same id and title, upstream order); no list has more   *)
(* than 3 cards.                                                           *)
(***************************************************************************)
C4_TopThreeInOrder ==
    \A c \in DOMAIN pc :
        Done(c) =>
            /\ Len(Payload(c).movies) <= 3
            /\ (WellFormedBody(c) /\ Len(Upstream(c)) >= 1) =>
                  /\ Len(Payload(c).movies) = Min(3, Len(Upstream(c)))
                  /\ \A i \in 1..Len(Payload(c).movies) :
                        /\ Payload(c).movies[i].id = Upstream(c)[i].v.id.v
                        /\ Payload(c).movies[i].title = Upstream(c)[i].v.title.v
                        /\ Payload(c).movies[i] = mapTmdbMovieToCard(Upstream(c)[i])

C4_Witness ==
    \E c \in DOMAIN pc :
        /\ Done(c)
        /\ WellFormedBody(c)
        /\ Len(Upstream(c)) = 4
        /\ Upstream(c)[3] # Upstream(c)[4]
        /\ Upstream(c)[1] # Upstream(c)[2]
        /\ Len(Payload(c).movies) = 3

(***************************************************************************)
(* C5: every non-2xx response gives the upstream-HTTP-failure outcome      *)
(* (the "external API error" status text, no movies, an error holding the  *)
(* status code), whether the error body is JSON with a status_message,     *)
(* JSON without one, or not JSON: a failed read of the error body never    *)
(* makes it a network/parse failure.                                       *)
(***************************************************************************)
C5_HttpFailureKept ==
    \A c \in DOMAIN pc :
        (Done(c) /\ GotNon2xx(c)) =>
            /\ kind[c] = "http_failure"
            /\ Result(c).text =
                   <<"Movie search failed due to an external API error.">>
            /\ Payload(c).movies = <<>>
            /\ HasError(c)
            /\ Contains(Payload(c).error, NumberToString(outcome[c].status))

C5_Witness ==
    \E c \in DOMAIN pc :
        /\ Done(c)
        /\ impl[c] = "mcp_use"
        /\ GotNon2xx(c)
        /\ outcome[c].status = 401
        /\ outcome[c].body = BodyInvalidJson
        /\ kind[c] = "http_failure"

(***************************************************************************)
(* C6: a 2xx response whose body is not JSON or not of the expected shape  *)
(* gives the network/parse-failure outcome (no movies, an error carrying   *)
(* the message of the error thrown), never another kind, even when some of *)
(* its entries are well-formed.                                            *)
(***************************************************************************)
C6_MalformedIsParseFailure ==
    \A c \in DOMAIN pc :
        (Done(c) /\ Got2xx(c) /\ ~WellFormedBody(c)) =>
            /\ kind[c] = "network_parse"
            /\ Result(c).text =
                   <<"Movie search failed due to a network or parsing error.">>
            /\ Payload(c).movies = <<>>
            /\ HasError(c)
            /\ \E m \in {<<"Unexpected token < in JSON at position 0">>,
                         <<"terminated">>, <<"[ zod issues ]">>} :
                   Payload(c).error =
                       <<"Unable to fetch movie results right now: ">> \o m

C6_Witness ==
    \E c \in DOMAIN pc :
        /\ Done(c)
        /\ Got2xx(c)
        /\ outcome[c].body.t = "obj"
        /\ "results" \in DOMAIN outcome[c].body.v
        /\ outcome[c].body.v.results.t = "arr"
        /\ Len(outcome[c].body.v.results.v) = 4
        /\ \A i \in 1..3 : ExpectedEntry(outcome[c].body.v.results.v[i])
        /\ ~ExpectedEntry(outcome[c].body.v.results.v[4])
        /\ kind[c] = "network_parse"

(***************************************************************************)
(* C7 as stated: for a well-formed 2xx body with an empty results array,   *)
(* the payload has no movies and its error field references the exact      *)
(* query text of the call.                                                 *)
(***************************************************************************)
C7_ErrorNamesQuery ==
    \A c \in DOMAIN pc :
        (Done(c) /\ WellFormedBody(c) /\ Upstream(c) = <<>>) =>
            /\ Payload(c).movies = <<>>
            /\ HasError(c)
            /\ Contains(Payload(c).error, query[c])

(***************************************************************************)
(* C7 amended: for a well-formed 2xx body with an empty results array, the *)
(* payload has no movies, its error field is the fixed text "No movies     *)
(* found for this query.", and the exact query text of the call is in the  *)
(* payload's query field and in the status text                            *)
(* 'No movies found for "<query>".'.                                       *)
(***************************************************************************)
C7_NoResults ==
    \A c \in DOMAIN pc :
        (Done(c) /\ WellFormedBody(c) /\ Upstream(c) = <<>>) =>
            /\ kind[c] = "no_results"
            /\ Payload(c).movies = <<>>
            /\ Payload(c).error = <<"No movies found for this query.">>
            /\ Payload(c).query = query[c]
            /\ Result(c).text =
                   <<"No movies found for \"">> \o query[c] \o <<"\".">>

C7_Witness ==
    \E c \in DOMAIN pc :
        /\ Done(c)
        /\ WellFormedBody(c)
        /\ Upstream(c) = <<>>
        /\ query[c] = <<"u", "p">>
        /\ Payload(c).movies = <<>>

(***************************************************************************)
(* Cards and the upstream results they come from.                          *)
(***************************************************************************)
Succeeded(c) == Done(c) /\ kind[c] = "success"
Field(e, key) == IF key \in DOMAIN e.v THEN e.v[key] ELSE Undefined
\* The text of s before its first '-' (all of s when it has none).
BeforeFirstDash(year, s) ==
    /\ Len(year) <= Len(s)
    /\ year = SubSeq(s, 1, Len(year))
    /\ \A i \in 1..Len(year) : year[i] # "-"
    /\ Len(year) < Len(s) => s[Len(year) + 1] = "-"
FourDigitYear(year) == Len(year) = 4 /\ \A i \in 1..4 : IsDigit(year[i])
\* releaseYear is the leading segment of release_date, "N/A" without one.
YearFromDate(year, date) ==
    IF date.t # "str" \/ date.v = <<>> \/ date.v[1] = "-"
    THEN year = <<"N/A">>
    ELSE year # <<>> /\ BeforeFirstDash(year, date.v)

(***************************************************************************)
(* C8 as stated: every card's releaseYear is a 4-digit year or "N/A": the  *)
(* text before the first '-' of release_date when that text is non-empty,  *)
(* "N/A" when release_date is absent, null, empty or starts with '-'.      *)
(***************************************************************************)
C8_YearOrNA ==
    \A c \in DOMAIN pc :
        Succeeded(c) =>
            \A i \in 1..Len(Payload(c).movies) :
                /\ YearFromDate(Payload(c).movies[i].releaseYear,
                                Field(Upstream(c)[i], "release_date"))
                /\ \/ Payload(c).movies[i].releaseYear = <<"N/A">>
                   \/ FourDigitYear(Payload(c).movies[i].releaseYear)

(***************************************************************************)
(* C8 amended: every card's releaseYear is the text before the first '-'   *)
(* of release_date when that text is non-empty, and "N/A" when             *)
(* release_date is absent, null, empty or starts with '-'; it is a 4-digit *)
(* year exactly when that leading text is one (the text is not validated). *)
(***************************************************************************)
C8_LeadingSegment ==
    \A c \in DOMAIN pc :
        Succeeded(c) =>
            \A i \in 1..Len(Payload(c).movies) :
                LET year == Payload(c).movies[i].releaseYear
                    date == Field(Upstream(c)[i], "release_date")
                IN  /\ YearFromDate(year, date)
                    /\ FourDigitYear(year) <=>
                          /\ date.t = "str"
                          /\ Len(date.v) >= 4
                          /\ FourDigitYear(SubSeq(date.v, 1, 4))
                          /\ Len(date.v) > 4 => date.v[5] = "-"

C8_Witness ==
    \E c \in DOMAIN pc :
        /\ Succeeded(c)
        /\ Len(Payload(c).movies) = 2
        /\ Field(Upstream(c)[1], "release_date") = JStr(<<"-", "0", "5">>)
        /\ Payload(c).movies[1].releaseYear = <<"N/A">>
        /\ Field(Upstream(c)[2], "release_date") = JStr(Date19990331)
        /\ Payload(c).movies[2].releaseYear = <<"1", "9", "9", "9">>

(***************************************************************************)
(* C9 as stated: a card's posterUrl is null exactly when the upstream      *)
(* poster_path is absent or null, and for every other poster_path it is    *)
(* the image base URL followed by poster_path verbatim.                    *)
(***************************************************************************)
C9_NullIffAbsent ==
    \A c \in DOMAIN pc :
        Succeeded(c) =>
            \A i \in 1..Len(Payload(c).movies) :
                LET url == Payload(c).movies[i].posterUrl
                    path == Field(Upstream(c)[i], "poster_path")
                IN  IF path.t # "str" THEN url = JNull
                    ELSE url = JStr(<<"https://image.tmdb.org/t/p/w500">>
                                        \o path.v)

(***************************************************************************)
(* C9 amended: a card's posterUrl is null exactly when the upstream        *)
(* poster_path is absent, null or the empty string, and for every          *)
(* non-empty poster_path it is the image base URL followed by poster_path  *)
(* verbatim.                                                               *)
(***************************************************************************)
C9_NullIffNoPath ==
    \A c \in DOMAIN pc :
        Succeeded(c) =>
            \A i \in 1..Len(Payload(c).movies) :
                LET url == Payload(c).movies[i].posterUrl
                    path == Field(Upstream(c)[i], "poster_path")
                IN  IF path.t # "str" \/ path.v = <<>> THEN url = JNull
                    ELSE url = JStr(<<"https://image.tmdb.org/t/p/w500">>
                                        \o path.v)

C9_Witness ==
    \E c \in DOMAIN pc :
        /\ Succeeded(c)
        /\ Len(Payload(c).movies) = 2
        /\ Field(Upstream(c)[1], "poster_path") = JStr(<<>>)
        /\ Payload(c).movies[1].posterUrl = JNull
        /\ Field(Upstream(c)[2], "poster_path")
               = JStr(<<"/", "a", ".", "j", "p", "g">>)
        /\ Payload(c).movies[2].posterUrl.t = "str"

(***************************************************************************)
(* C10: the status text of a result is fixed by its outcome kind: one      *)
(* fixed text each for missing credential, upstream HTTP failure and       *)
(* network/parse failure, 'No movies found for "<query>".' for no results  *)
(* and 'Found N movie result(s) for "<query>".' on success, N the length   *)
(* of the movies list of the same result and <query> the call's query.     *)
(***************************************************************************)
C10_StatusText ==
    \A c \in DOMAIN pc :
        Done(c) =>
            Result(c).text =
                CASE kind[c] = "missing_credential" ->
                         IF impl[c] = "mcp_use"
                         THEN <<"Movie search failed because the TMDB API key is not configured.">>
                         ELSE <<"Movie search failed because ", "TMDB_API_KEY",
                                " is not configured.">>
                  [] kind[c] = "http_failure" ->
                         <<"Movie search failed due to an external API error.">>
                  [] kind[c] = "network_parse" ->
                         <<"Movie search failed due to a network or parsing error.">>
                  [] kind[c] = "no_results" ->
                         <<"No movies found for \"">> \o query[c] \o <<"\".">>
                  [] kind[c] = "success" ->
                         <<"Found ">>
                             \o NumberToString(Len(Payload(c).movies))
                             \o <<" movie result(s) for \"">> \o query[c]
                             \o <<"\".">>

C10_Witness ==
    \E c \in DOMAIN pc :
        /\ Succeeded(c)
        /\ impl[c] = "mcp_use"
        /\ query[c] = <<"i", "t">>
        /\ Len(Upstream(c)) = 4
        /\ Result(c).text =
               <<"Found ", "3", " movie result(s) for \"", "i", "t", "\".">>

(***************************************************************************)
(* Concurrent calls: the framework dispatches NumCalls invocations, served *)
(* by either implementation, whose steps interleave at the awaits in any   *)
(* order. Each outbound request ends in one of a few representative ways.  *)
(***************************************************************************)
ConcurrentCalls == 1..NumCalls

ConcurrentQueries == {<<"u", "p">>, <<"i", "t">>}

ConcurrentOutcomes ==
    {Rejected(ErrorOf(<<"fetch failed">>)),
     Response(401, JObj([status_message |-> JStr(<<"Invalid API key.">>)])),
     Response(200, JObj([results |-> JArr(<<>>)])),
     Response(200, JObj([results |-> JArr(<<MovieFull, NoTitle>>)])),
     Response(200, JObj([results |->
                            JArr(<<MovieFull, MovieBare, MovieYearOnly,
                                   MovieBare>>)]))}

InitConcurrent ==
    /\ apiKey \in ApiKeys
    /\ pc = [c \in ConcurrentCalls |-> "idle"]
    /\ impl = [c \in ConcurrentCalls |-> "none"]
    /\ query = [c \in ConcurrentCalls |-> <<>>]
    /\ outcome = [c \in ConcurrentCalls |-> None]
    /\ requests = [c \in ConcurrentCalls |-> 0]
    /\ returned = [c \in ConcurrentCalls |-> <<>>]
    /\ kind = [c \in ConcurrentCalls |-> "none"]

ConcurrentHandlerStart ==
    \E c \in DOMAIN pc :
        \E q \in ConcurrentQueries : searchMoviesHandler_Start(c, q)
ConcurrentHandlerFetchSettles ==
    \E c \in DOMAIN pc :
        searchMoviesHandler_FetchSettles(c, ConcurrentOutcomes)
ConcurrentToolStart ==
    \E c \in DOMAIN pc :
        \E q \in ConcurrentQueries : searchMoviesTool_Start(c, q)
ConcurrentToolFetchSettles ==
    \E c \in DOMAIN pc : searchMoviesTool_FetchSettles(c, ConcurrentOutcomes)

NextConcurrent ==
    \/ ConcurrentHandlerStart
    \/ ConcurrentHandlerFetchSettles
    \/ HandlerErrorBody
    \/ HandlerBody
    \/ ConcurrentToolStart
    \/ ConcurrentToolFetchSettles
    \/ ToolBody

SpecConcurrent == InitConcurrent /\ [][NextConcurrent]_vars

\* The movies a call's own response stands for on its own.
OwnMovies(c) ==
    IF KeyConfigured /\ WellFormedBody(c)
    THEN [i \in 1..Min(3, Len(Upstream(c))) |->
             mapTmdbMovieToCard(Upstream(c)[i])]
    ELSE <<>>

\* A finished call answers its own query from its own response, and calls
\* with the same implementation, query and outcome have the same result.
OwnResult ==
    /\ \A c \in DOMAIN pc :
          Done(c) =>
              /\ Payload(c).query = query[c]
              /\ Payload(c).movies = OwnMovies(c)
    /\ \A c, d \in DOMAIN pc :
          (Done(c) /\ Done(d) /\ impl[c] = impl[d] /\ query[c] = query[d]
                   /\ outcome[c] = outcome[d]) =>
              returned[c] = returned[d] /\ kind[c] = kind[d]

\* What a step of one call leaves alone: every other call, and every
\* result already returned.
OthersUntouched ==
    \A c \in DOMAIN pc :
        /\ Done(c) => pc'[c] = "done" /\ returned'[c] = returned[c]
        /\ pc'[c] # pc[c] =>
              \A d \in DOMAIN pc \ {c} :
                  /\ pc'[d] = pc[d]
                  /\ impl'[d] = impl[d]
                  /\ query'[d] = query[d]
                  /\ outcome'[d] = outcome[d]
                  /\ requests'[d] = requests[d]
                  /\ returned'[d] = returned[d]
                  /\ kind'[d] = kind[d]

(***************************************************************************)
(* C11: when several calls run concurrently and their requests complete in *)
(* any interleaving, each call's result depends only on its own query, the *)
(* API-key configuration and its own HTTP response: its payload's query is *)
(* its own, its movies derive from its own response, equal inputs give     *)
(* equal results, and no step of one call changes another call or a result *)
(* already returned.                                                       *)
(***************************************************************************)
C11_CallsIndependent == []OwnResult /\ [][OthersUntouched]_vars

\* Call 2 has returned its own result while call 1 is still in flight.
C11_Witness ==
    /\ pc[1] = "error_body"
    /\ impl[1] = "mcp_use"
    /\ Done(2)
    /\ query[1] # query[2]
    /\ kind[2] = "success"
    /\ Payload(2).query = query[2]
    /\ Len(Payload(2).movies) = 3

(***************************************************************************)
(* The two implementations side by side: call 1 is served by the mcp-use   *)
(* handler, call 2 by the edge-function callback, under the same API-key   *)
(* configuration, with the query of call 1 and with the outbound request   *)
(* of call 2 ending as that of call 1 did. The queries are those both      *)
(* input schemas accept (searchMoviesInputSchema of the mcp-use server     *)
(* refuses the empty string before the handler runs).                      *)
(***************************************************************************)
InitPair ==
    /\ apiKey \in ApiKeys
    /\ pc = [c \in {1, 2} |-> "idle"]
    /\ impl = [c \in {1, 2} |-> "none"]
    /\ query = [c \in {1, 2} |-> <<>>]
    /\ outcome = [c \in {1, 2} |-> None]
    /\ requests = [c \in {1, 2} |-> 0]
    /\ returned = [c \in {1, 2} |-> <<>>]
    /\ kind = [c \in {1, 2} |-> "none"]

PairHandlerStart == \E q \in Queries : searchMoviesHandler_Start(1, q)
PairHandlerFetchSettles == searchMoviesHandler_FetchSettles(1, FetchOutcomes)
PairToolStart == pc[1] # "idle" /\ searchMoviesTool_Start(2, query[1])
PairToolFetchSettles ==
    outcome[1] # None /\ searchMoviesTool_FetchSettles(2, {outcome[1]})

NextPair ==
    \/ PairHandlerStart
    \/ PairHandlerFetchSettles
    \/ HandlerErrorBody
    \/ HandlerBody
    \/ PairToolStart
    \/ PairToolFetchSettles
    \/ ToolBody

SpecPair == InitPair /\ [][NextPair]_vars

(***************************************************************************)
(* C12: the mcp-use handler and the edge-function callback agree on every  *)
(* input: for the same query, API-key configuration and HTTP outcome they  *)
(* return the same outcome kind and the same movies list.                  *)
(***************************************************************************)
C12_ImplementationsAgree ==
    (/\ Done(1) /\ Done(2)
     /\ impl[1] = "mcp_use" /\ impl[2] = "edge"
     /\ query[1] = query[2]
     /\ outcome[1] = outcome[2]) =>
        /\ kind[1] = kind[2]
        /\ Payload(1).movies = Payload(2).movies
        /\ Payload(1).query = Payload(2).query
        /\ HasError(1) <=> HasError(2)

\* Same kind and movies on a 401 whose body has a status_message, where the
\* two error texts differ.
C12_Witness ==
    /\ Done(1) /\ Done(2)
    /\ impl[1] = "mcp_use" /\ impl[2] = "edge"
    /\ query[1] = query[2]
    /\ outcome[1] = outcome[2]
    /\ outcome[1] =
           Response(401, JObj([status_message |-> JStr(<<"Invalid API key.">>)]))
    /\ kind[1] = "http_failure"
    /\ kind[2] = "http_failure"
    /\ Payload(1).error # Payload(2).error

=============================================================================
